---- MODULE Spec2Model ----
(***************************************************************************)
(* NGN.DATA.Store (lib/store.js): the record collection, its change        *)
(* tracking (_created/_deleted), its duplicate policy and its index table  *)
(* (_index), as a state machine with one action per store operation.       *)
(*                                                                         *)
(* Records are instances 1..MaxRec.  Positions are JavaScript array        *)
(* offsets (0-based); field values are JavaScript numbers, so a value can  *)
(* be strictly equal (===) to a position: an index bucket is the array     *)
(* [value, position, position, ...] and the code searches it as a whole.   *)
(***************************************************************************)
EXTENDS Integers, Sequences, FiniteSets, TLC

\* ------------------------------------------------------------- bounds
MaxRec == 3        \* record instances that exist
MaxAdds == 3       \* records inserted over the life of the store (Spec)
MaxFewAdds == 2    \* the same, for the specifications with more operations
MaxIndex == 5      \* elements (values and positions) of one field's buckets
                   \* after a field update

RecIds == 1..MaxRec
Fields == {"f", "g"}
Values == {0, 1}

\* JavaScript undefined: an absent field, the head of an empty array.
Undefined == -2
\* What indexOf / findIndex return when nothing matches.
NotFound == -1

\* The data each record instance is built with.  The checksum is computed
\* from a record's data, so instances 1 and 2, which share a checksum, are
\* built from the same data.
InitialData(r) ==
  IF r <= 2 THEN [f \in Fields |-> IF f = "f" THEN 0 ELSE Undefined]
  ELSE [f \in Fields |-> IF f = "f" THEN 1 ELSE 0]

\* The record's identity token (Record capability, external to the store):
\* stable for the life of the instance; instances 1 and 2 share a token.
checksum(r) == (r + 1) \div 2

VARIABLES
  _data,            \* this._data: sequence of record instances
  _index,           \* this._index[field]: sequence of buckets [value, pos, ...]
  indexKeys,        \* Object.keys(this._index)
  _created,         \* this._created
  _deleted,         \* this._deleted
  _loading,         \* this._loading
  _filters,         \* this._filters: sequence of predicates
  allowDuplicates,  \* this.allowDuplicates
  errorOnDuplicate, \* this.errorOnDuplicate
  listeners,        \* per record, the handlers listen() has registered
  fld,              \* per record, the current value of each field
  op,               \* the last operation called
  threw,            \* the error the last operation raised, or "none"
  emitted,          \* the events the last operation emitted, in order
  ret,              \* what the last operation returned
  bulkSeen,         \* _loading, _created and _deleted as the handlers of
                    \* the last load / reload event found them
  updateSeen        \* _index as the handlers of the operation's last
                    \* record.update event found it (empty without one)

vars == <<_data, _index, indexKeys, _created, _deleted, _loading, _filters,
          allowDuplicates, errorOnDuplicate, listeners, fld, op, threw,
          emitted, ret, bulkSeen, updateSeen>>

\* ------------------------------------------------------ array helpers
Range(s) == {s[i] : i \in 1..Len(s)}

MinOf(S) == CHOOSE x \in S : \A y \in S : x <= y

\* Array.prototype.indexOf on an array of numbers: 0-based, -1 if absent.
ArrIndexOf(s, x) ==
  IF \E i \in 1..Len(s) : s[i] = x
  THEN MinOf({i \in 1..Len(s) : s[i] = x}) - 1
  ELSE NotFound

\* Array.prototype.splice(start, 1): a negative start counts from the end,
\* a start at or past the end removes nothing.
Splice1(s, start) ==
  LET from == IF start < 0
              THEN (IF Len(s) + start < 0 THEN 0 ELSE Len(s) + start)
              ELSE start
  IN IF from >= Len(s) THEN s
     ELSE [i \in 1..(Len(s) - 1) |-> IF i <= from THEN s[i] ELSE s[i + 1]]

\* values[i][0]: the value a bucket is filed under (undefined if it is empty).
BHead(b) == IF Len(b) = 0 THEN Undefined ELSE b[1]

\* The decimal string of a number, as character codes (String(n)).
RECURSIVE Digits(_)
Digits(n) == IF n < 10 THEN <<48 + n>> ELSE Digits(n \div 10) \o <<48 + (n % 10)>>

ToStr(n) == IF n < 0 THEN <<45>> \o Digits(0 - n) ELSE Digits(n)

\* a < b in the order of Array.prototype.sort() without a comparator,
\* which compares the elements' strings by code unit.
RECURSIVE StrLess(_, _)
StrLess(a, b) ==
  IF Len(b) = 0 THEN FALSE
  ELSE IF Len(a) = 0 THEN TRUE
  ELSE IF a[1] # b[1] THEN a[1] < b[1]
  ELSE StrLess(Tail(a), Tail(b))

RECURSIVE InsertSorted(_, _)
InsertSorted(s, x) ==
  IF Len(s) = 0 THEN <<x>>
  ELSE IF StrLess(ToStr(x), ToStr(s[1])) THEN <<x>> \o s
  ELSE <<s[1]>> \o InsertSorted(Tail(s), x)

RECURSIVE JsSort(_)
JsSort(s) == IF Len(s) = 0 THEN <<>> ELSE InsertSorted(JsSort(Tail(s)), s[1])

\* ----------------------------------------------------------- index table
\* applyIndices, one field: the first bucket filed under the record's value
\* gets the position; with no such bucket a new one is appended.
applyField(buckets, value, num) ==
  LET hits == {i \in 1..Len(buckets) : BHead(buckets[i]) = value}
  IN IF hits # {}
     THEN [buckets EXCEPT ![MinOf(hits)] = Append(@, num)]
     ELSE Append(buckets, <<value, num>>)

applyIndices(index, keys, rv, num) ==
  [f \in Fields |->
     IF f \in keys /\ rv[f] # Undefined
     THEN applyField(index[f], rv[f], num)
     ELSE index[f]]

\* me._index[field].indexOf(num): the elements of the field's list are the
\* buckets (arrays) and num is a number, so no element is ever === num.
BucketListIndexOf(buckets, num) == NotFound

unapplyIndices(index, keys, num) ==
  [f \in Fields |->
     IF f \in keys /\ BucketListIndexOf(index[f], num) >= 0
     THEN Splice1(index[f], BucketListIndexOf(index[f], num))
     ELSE index[f]]

\* The loop of updateIndice over one field's buckets, from bucket i on,
\* with ct branches taken so far.
RECURSIVE updateLoop(_, _, _, _, _, _)
updateLoop(buckets, i, ct, oldValue, newValue, num) ==
  IF i > Len(buckets) THEN buckets
  ELSE LET b == buckets[i]
           value == BHead(b)
           hitOld == value = oldValue
           skip == ~hitOld /\ newValue = Undefined
           hitNew == ~hitOld /\ ~skip /\ value = newValue
           b2 == IF hitOld THEN Splice1(b, ArrIndexOf(b, num))
                 ELSE IF hitNew THEN <<value>> \o JsSort(Tail(Append(b, num)))
                 ELSE b
           ct2 == IF hitOld \/ skip \/ hitNew THEN ct + 1 ELSE ct
           next == [buckets EXCEPT ![i] = b2]
       IN IF ct2 = 2 THEN next
          ELSE updateLoop(next, i + 1, ct2, oldValue, newValue, num)

updateIndice(index, keys, field, oldValue, newValue, num) ==
  IF field \notin keys \/ oldValue = newValue THEN index
  ELSE [index EXCEPT ![field] = updateLoop(@, 1, 0, oldValue, newValue, num)]

\* getIndices: the buckets filed under the value; when there is exactly one
\* its head is shifted off in place and the bucket itself is returned.
getIndicesHits(buckets, value) ==
  {i \in 1..Len(buckets) : Len(buckets[i]) > 0 /\ buckets[i][1] = value}

getIndicesRet(index, keys, field, value) ==
  IF field \notin keys THEN [kind |-> "null", val |-> <<>>]
  ELSE LET hits == getIndicesHits(index[field], value)
       IN IF Cardinality(hits) = 1
          THEN [kind |-> "list", val |-> Tail(index[field][MinOf(hits)])]
          ELSE [kind |-> "list", val |-> <<>>]

getIndicesIndex(index, keys, field, value) ==
  IF field \notin keys THEN index
  ELSE LET hits == getIndicesHits(index[field], value)
       IN IF Cardinality(hits) = 1
          THEN [index EXCEPT ![field][MinOf(hits)] = Tail(@)]
          ELSE index

\* clearIndices leaving the buckets as they are.
clearIndicesKeep(index, keys) == index

clearIndices(index, keys) ==
  [f \in Fields |-> IF f \in keys THEN <<>> ELSE index[f]]

RECURSIVE reindexFrom(_, _, _, _, _)
reindexFrom(index, keys, data, values, i) ==
  IF i > Len(data) THEN index
  ELSE reindexFrom(applyIndices(index, keys, values[data[i]], i - 1),
                   keys, data, values, i + 1)

reindex(index, keys, data, values) ==
  reindexFrom(clearIndices(index, keys), keys, data, values, 1)

\* ------------------------------------------------------------ the store
\* The store's fields as one value, threaded through the methods below;
\* ev and threw collect what the running operation emits and raises.
Store ==
  [data |-> _data, index |-> _index, keys |-> indexKeys,
   created |-> _created, deleted |-> _deleted, loading |-> _loading,
   filters |-> _filters, allowDuplicates |-> allowDuplicates,
   errorOnDuplicate |-> errorOnDuplicate, listeners |-> listeners,
   fld |-> fld, ev |-> <<>>, threw |-> "none", seen |-> bulkSeen,
   seenIndex |-> [f \in Fields |-> <<>>]]

\* isDuplicate: a record that is itself a member is never a duplicate;
\* otherwise any member with the same checksum makes it one.
isDuplicate(data, r) ==
  IF ArrIndexOf(data, r) >= 0 THEN FALSE
  ELSE \E i \in 1..Len(data) : checksum(data[i]) = checksum(r)

\* listen: one more pair of field.update / field.delete handlers on r.
listen(ls, r) == [ls EXCEPT ![r] = @ + 1]

\* add(data, suppressEvent) with data the record instance r.
add(S, r, suppressEvent) ==
  LET dupe == isDuplicate(S.data, r)
      ev1 == IF dupe THEN Append(S.ev, "record.duplicate") ELSE S.ev
  IN IF dupe /\ ~S.allowDuplicates
     THEN [S EXCEPT !.ev = ev1,
                    !.threw = IF S.errorOnDuplicate
                              THEN "DuplicateRecordError" ELSE @]
     ELSE [S EXCEPT
             !.listeners = listen(@, r),
             !.index = applyIndices(@, S.keys, S.fld[r], Len(S.data)),
             !.data = Append(@, r),
             !.created = IF ~S.loading THEN @ \cup {r} ELSE @,
             !.ev = IF suppressEvent THEN ev1 ELSE Append(ev1, "record.create")]

\* A bulk load that takes in the first record of the list only.
bulkAddOne(S, list) ==
  IF Len(list) = 0 \/ S.threw # "none" THEN S ELSE add(S, Head(list), TRUE)

\* data.forEach(rec => me.add(rec, true)): an error ends the loop.
RECURSIVE bulkAdd(_, _)
bulkAdd(S, list) ==
  IF Len(list) = 0 \/ S.threw # "none" THEN S
  ELSE bulkAdd(add(S, Head(list), TRUE), Tail(list))

\* this.emit(event || 'load'): the handlers run at once, on the store as
\* it is at that statement.
emitBulk(S, event) ==
  [S EXCEPT !.ev = Append(@, event),
            !.seen = [loading |-> S.loading, created |-> S.created,
                      deleted |-> S.deleted]]

\* bulk announcing the load before it leaves bulk mode.
bulkEmitFirst(S, event, list) ==
  LET S1 == bulkAdd([S EXCEPT !.loading = TRUE], list)
  IN IF S1.threw # "none" THEN S1
     ELSE [emitBulk(S1, event) EXCEPT
             !.loading = FALSE, !.deleted = {}, !.created = {}]

bulk(S, event, list) ==
  LET S1 == bulkAdd([S EXCEPT !.loading = TRUE], list)
  IN IF S1.threw # "none" THEN S1
     ELSE emitBulk([S1 EXCEPT !.loading = FALSE, !.deleted = {},
                              !.created = {}], event)

\* indexOf(record): the first member with the record's checksum.
indexOf(data, r) ==
  IF \E i \in 1..Len(data) : checksum(data[i]) = checksum(r)
  THEN MinOf({i \in 1..Len(data) : checksum(data[i]) = checksum(r)}) - 1
  ELSE NotFound

\* remove without its not-found check.
removeNeverFails(num) == FALSE

\* remove: "if (num < 0) throw".
removeFails(num) == num < 0

\* remove(data, suppressEvents) once data is resolved to the position num.
remove(S, num, suppressEvents) ==
  IF removeFails(num) THEN [S EXCEPT !.threw = "RecordNotFoundError"]
  ELSE IF Splice1(S.data, num) = S.data THEN S
  ELSE LET removed == S.data[(IF num < 0 THEN Len(S.data) + num ELSE num) + 1]
       IN [S EXCEPT
             !.data = Splice1(@, num),
             !.index = unapplyIndices(@, S.keys, num),
             !.created = IF ~S.loading THEN @ \ {removed} ELSE @,
             !.deleted = IF ~S.loading /\ removed \notin S.created
                         THEN @ \cup {removed} ELSE @,
             !.ev = IF suppressEvents THEN @ ELSE Append(@, "record.delete")]

\* clear resetting the change tracking as a bulk load does.
clearTracking(S) ==
  [S EXCEPT !.data = <<>>, !.index = clearIndices(@, S.keys),
            !.created = {}, !.deleted = {}, !.ev = Append(@, "clear")]

clear(S) ==
  [S EXCEPT !.data = <<>>, !.index = clearIndices(@, S.keys),
            !.ev = Append(@, "clear")]

reload(S, list) == bulk(clear(S), "reload", list)

load(S, list) == bulk(S, "load", list)

\* createIndex: this._index[field] = this._index[field] || [].
createIndex(S, field, suppressEvents) ==
  [S EXCEPT !.keys = @ \cup {field},
            !.index = [@ EXCEPT ![field] = IF field \in S.keys THEN @ ELSE <<>>],
            !.ev = IF ~suppressEvents /\ field \notin S.keys
                   THEN Append(@, "index.created") ELSE @]

\* me.emit('record.update', record): the handlers run at once, on the
\* index as it is at that statement.
emitUpdate(S) ==
  [S EXCEPT !.ev = Append(@, "record.update"), !.seenIndex = S.index]

\* The handlers announcing the change before they update the index.
RECURSIVE onFieldChangeEmitFirst(_, _, _, _, _, _)
onFieldChangeEmitFirst(S, r, field, oldValue, newValue, n) ==
  IF n = 0 THEN S
  ELSE onFieldChangeEmitFirst(
         [emitUpdate(S) EXCEPT !.index = updateIndice(@, S.keys, field, oldValue,
                                                      newValue, ArrIndexOf(S.data, r))],
         r, field, oldValue, newValue, n - 1)

\* The handlers listen() put on a record, run once per registration when
\* the record announces that field changed from oldValue to newValue
\* (Undefined for field.delete): the position is looked up afresh.
RECURSIVE onFieldChange(_, _, _, _, _, _)
onFieldChange(S, r, field, oldValue, newValue, n) ==
  IF n = 0 THEN S
  ELSE onFieldChange(
         emitUpdate([S EXCEPT !.index = updateIndice(@, S.keys, field, oldValue,
                                                     newValue, ArrIndexOf(S.data, r))]),
         r, field, oldValue, newValue, n - 1)

\* -------------------------------------------------------------- filters
\* The predicates callers register: 1 keeps the records whose f is 0,
\* 2 keeps the records that have a g.
FilterIds == {1, 2}

filterFn(k, rv) == IF k = 1 THEN rv["f"] = 0 ELSE rv["g"] # Undefined

\* applyFilters keeping what any one of the filters keeps.
applyAnyFilter(filters, data, values) ==
  IF Len(filters) = 0 THEN data
  ELSE SelectSeq(data, LAMBDA r : \E i \in 1..Len(filters) :
                                    filterFn(filters[i], values[r]))

RECURSIVE applyFilters(_, _, _)
applyFilters(filters, data, values) ==
  IF Len(filters) = 0 THEN data
  ELSE applyFilters(Tail(filters),
                    SelectSeq(data, LAMBDA r : filterFn(Head(filters), values[r])),
                    values)

addFilter(S, fn) ==
  [S EXCEPT !.filters = Append(@, fn), !.ev = Append(@, "filter.create")]

\* removeFilter(fn) with fn a number: splice(fn, 1).
removeFilterAt(S, n, suppressEvents) ==
  [S EXCEPT !.filters = Splice1(@, n),
            !.ev = IF Splice1(S.filters, n) # S.filters /\ ~suppressEvents
                   THEN Append(@, "filter.delete") ELSE @]

\* removeFilter(fn) with fn a predicate: splice(indexOf(fn), 1).
removeFilter(S, fn, suppressEvents) ==
  removeFilterAt(S, ArrIndexOf(S.filters, fn), suppressEvents)

clearFilters(S, suppressEvents) ==
  [S EXCEPT !.filters = <<>>,
            !.ev = IF suppressEvents THEN @
                   ELSE @ \o [i \in 1..Len(S.filters) |-> "filter.delete"]]

\* ------------------------------------------------------------- getters
\* get records
records(S) == applyFilters(S.filters, S.data, S.fld)

\* get recordCount
recordCount(S) == Len(applyFilters(S.filters, S.data, S.fld))

\* get data: the data of every stored record.
data(S) == [i \in 1..Len(S.data) |-> S.fld[S.data[i]]]

\* ----------------------------------------------------------------- find
\* A query: a number, a predicate (one of the filter predicates), a
\* non-blank id string, a record, a field map (the pairs <<field, value>>
\* in the order of Object.keys) or nothing at all.
Query(kind, num, pairs) == [kind |-> kind, num |-> num, pairs |-> pairs]

\* What a method without a return value returns.
NoRet == [kind |-> "none", val |-> <<>>]

\* What find returns: null, one record or a list of records.
Null == [kind |-> "null", val |-> <<>>]

OneRecord(r) == [kind |-> "record", val |-> <<r>>]

ListOf(recs) == [kind |-> "list", val |-> recs]

\* keys.forEach in the field-map case: getIndices is called for each key,
\* shifting the bucket it reads; a key with an index adds its positions to
\* match, a key without one goes to noindex.
RECURSIVE findLookups(_, _, _, _, _)
findLookups(index, keys, pairs, match, noindex) ==
  IF Len(pairs) = 0
  THEN [index |-> index, match |-> match, noindex |-> noindex]
  ELSE LET field == Head(pairs)[1]
           value == Head(pairs)[2]
           hit == getIndicesRet(index, keys, field, value)
       IN IF hit.kind = "null"
          THEN findLookups(index, keys, Tail(pairs), match,
                           Append(noindex, Head(pairs)))
          ELSE findLookups(getIndicesIndex(index, keys, field, value), keys,
                           Tail(pairs), match \o hit.val, noindex)

\* record[field] === value for every pair.
MatchesAll(rv, pairs) == \A i \in 1..Len(pairs) : rv[pairs[i][1]] = pairs[i][2]

\* The positions of an array of len elements, in order.
Offsets(len) == [i \in 1..len |-> i - 1]

\* The field-map case.  The "Deduplicate" filter's result is dropped, so
\* match is used as collected; a position of match with no record behind
\* it makes the final filter read a field of undefined.
findObject(S, pairs) ==
  LET L == findLookups(S.index, S.keys, pairs, <<>>, <<>>)
      S1 == [S EXCEPT !.index = L.index]
      scanned ==
        IF Len(L.noindex) > 0
        THEN SelectSeq(Offsets(Len(S.data)),
               LAMBDA i : /\ ArrIndexOf(L.match, i) < 0
                          /\ MatchesAll(S.fld[S.data[i + 1]], L.noindex))
        ELSE <<>>
      cand == scanned \o L.match
      dangling == \E i \in 1..Len(cand) : cand[i] \notin 0..(Len(S.data) - 1)
      kept == SelectSeq(cand, LAMBDA p : MatchesAll(S.fld[S.data[p + 1]], pairs))
  IN IF dangling
     THEN [store |-> [S1 EXCEPT !.threw = "TypeError"], ret |-> NoRet]
     ELSE [store |-> S1, ret |-> ListOf([i \in 1..Len(kept) |-> S.data[kept[i] + 1]])]

\* find(query, ignoreFilters): the store it leaves and what it returns.
\* The last statement computes applyFilters(res) and drops the result, so
\* ignoreFilters has no part in what is returned.
find(S, query, ignoreFilters) ==
  IF Len(S.data) = 0 THEN [store |-> S, ret |-> ListOf(<<>>)]
  ELSE CASE query.kind = "function" ->
              [store |-> S,
               ret |-> ListOf(SelectSeq(S.data,
                         LAMBDA r : filterFn(query.num, S.fld[r])))]
         [] query.kind = "number" ->
              [store |-> S,
               ret |-> IF query.num < 0 \/ query.num >= Len(S.data) THEN Null
                       ELSE OneRecord(S.data[query.num + 1])]
         [] query.kind = "string" ->
              \* No record here has an id and there is no index on it:
              \* getIndices is null and the scan compares '' with the string.
              [store |-> S, ret |-> Null]
         [] query.kind = "record" ->
              [store |-> S,
               ret |-> IF indexOf(S.data, query.num) >= 0
                       THEN OneRecord(query.num) ELSE Null]
         [] query.kind = "object" -> findObject(S, query.pairs)
         [] OTHER -> [store |-> S, ret |-> ListOf(S.data)]

\* ----------------------------------------------------------------- sort
\* A field-map sorter: the pairs <<field, direction>> in the order of
\* Object.keys.  The comparator sort() builds from it: 1 puts a after b,
\* -1 before, 0 leaves them as they are.
RECURSIVE compare(_, _, _)
compare(a, b, sorter) ==
  IF Len(sorter) = 0 THEN 0
  ELSE LET key == Head(sorter)[1]
           dir == Head(sorter)[2]
       IN IF a[key] # Undefined /\ b[key] = Undefined THEN 1
          ELSE IF a[key] = Undefined /\ b[key] # Undefined THEN 0 - 1
          ELSE IF a[key] # b[key]
               THEN (IF dir = "asc"
                     THEN (IF a[key] > b[key] THEN 1 ELSE 0 - 1)
                     ELSE (IF a[key] < b[key] THEN 1 ELSE 0 - 1))
          ELSE compare(a, b, Tail(sorter))

\* Array.prototype.sort(comparator): the comparator above is a consistent
\* ordering, for which sort is stable.
RECURSIVE InsertBy(_, _, _, _)
InsertBy(s, x, values, sorter) ==
  IF Len(s) = 0 THEN <<x>>
  ELSE IF compare(values[x], values[s[Len(s)]], sorter) >= 0 THEN Append(s, x)
  ELSE Append(InsertBy(SubSeq(s, 1, Len(s) - 1), x, values, sorter), s[Len(s)])

RECURSIVE SortBy(_, _, _)
SortBy(s, values, sorter) ==
  IF Len(s) = 0 THEN <<>>
  ELSE InsertBy(SortBy(SubSeq(s, 1, Len(s) - 1), values, sorter), s[Len(s)],
                values, sorter)

\* sort(fn) with fn a field map: this.records.sort(...), then reindex.
\* this.records is _data itself when no filter is registered and a
\* filtered copy otherwise.
sort(S, sorter) ==
  LET sorted == IF Len(S.filters) = 0 THEN SortBy(S.data, S.fld, sorter)
                ELSE S.data
  IN [S EXCEPT !.data = sorted,
               !.index = reindex(@, S.keys, sorted, S.fld)]

\* ---------------------------------------------------------- deduplicate
\* JSON.stringify of a record's data: the fields it has, with their values.
stringify(rv) == [f \in {g \in Fields : rv[g] # Undefined} |-> rv[f]]

\* records.indexOf(record) < i: the positions whose serialization is at an
\* earlier position too.
dupePositions(S) ==
  SelectSeq(Offsets(Len(S.data)),
            LAMBDA i : \E j \in 0..(i - 1) :
                         stringify(S.fld[S.data[j + 1]])
                           = stringify(S.fld[S.data[i + 1]]))

\* dupes.forEach(duplicate => me.remove(duplicate)): each duplicate is a
\* record, which remove resolves through indexOf; no event is suppressed.
RECURSIVE removeEach(_, _)
removeEach(S, dupes) ==
  IF Len(dupes) = 0 \/ S.threw # "none" THEN S
  ELSE removeEach(remove(S, indexOf(S.data, Head(dupes)), FALSE), Tail(dupes))

\* deduplicate stopping after the first duplicate it finds.
deduplicateFirst(S) ==
  LET at == dupePositions(S)
  IN IF Len(at) = 0 THEN S
     ELSE removeEach(S, <<find(S, Query("number", at[1], <<>>), FALSE).ret.val[1]>>)

deduplicate(S) ==
  LET at == dupePositions(S)
      dupes == [n \in 1..Len(at) |->
                  find(S, Query("number", at[n], <<>>), FALSE).ret.val[1]]
  IN removeEach(S, dupes)

\* -------------------------------------------------------------- actions
\* The state after the operation called name left the store as S and
\* returned result.
Commit(S, name, result) ==
  /\ _data' = S.data
  /\ _index' = S.index
  /\ indexKeys' = S.keys
  /\ _created' = S.created
  /\ _deleted' = S.deleted
  /\ _loading' = S.loading
  /\ _filters' = S.filters
  /\ listeners' = S.listeners
  /\ fld' = S.fld
  /\ emitted' = S.ev
  /\ threw' = S.threw
  /\ op' = name
  /\ ret' = result
  /\ bulkSeen' = S.seen
  /\ updateSeen' = S.seenIndex
  /\ UNCHANGED <<allowDuplicates, errorOnDuplicate>>

RECURSIVE Total(_, _)
Total(ls, n) == IF n = 0 THEN 0 ELSE ls[n] + Total(ls, n - 1)

RECURSIVE Elements(_)
Elements(buckets) ==
  IF Len(buckets) = 0 THEN 0 ELSE Len(Head(buckets)) + Elements(Tail(buckets))

\* The model's bounds on what an operation may leave behind: listen() is
\* called once per inserted record, so the subscriptions count the inserts.
InBounds(S, cap) == Total(S.listeners, MaxRec) <= cap

\* updateIndice can add a position to a bucket without taking it out of
\* another, so field changes alone can grow the index without end.
IndexInBounds(S) == \A f \in Fields : Elements(S.index[f]) <= MaxIndex

Init ==
  /\ _data = <<>>
  /\ _index = [f \in Fields |-> <<>>]
  /\ indexKeys = {"f"}
  /\ _created = {}
  /\ _deleted = {}
  /\ _loading = FALSE
  /\ _filters = <<>>
  /\ allowDuplicates \in BOOLEAN
  /\ errorOnDuplicate \in IF allowDuplicates THEN {TRUE} ELSE BOOLEAN
  /\ listeners = [r \in RecIds |-> 0]
  /\ fld = [r \in RecIds |-> InitialData(r)]
  /\ op = "new"
  /\ threw = "none"
  /\ emitted = <<>>
  /\ ret = NoRet
  /\ bulkSeen = [loading |-> FALSE, created |-> {}, deleted |-> {}]
  /\ updateSeen = [f \in Fields |-> <<>>]

Add(r, cap) ==
  LET S == add(Store, r, FALSE)
  IN /\ InBounds(S, cap)
     /\ Commit(S, "add", NoRet)

Lists == {<<>>} \cup {<<a>> : a \in RecIds} \cup {<<a, b>> : a, b \in RecIds}

Load(list, cap) ==
  LET S == load(Store, list)
  IN /\ InBounds(S, cap)
     /\ Commit(S, "load", NoRet)

Reload(list, cap) ==
  LET S == reload(Store, list)
  IN /\ InBounds(S, cap)
     /\ Commit(S, "reload", NoRet)

\* remove(number)
RemoveAt(num) == Commit(remove(Store, num, FALSE), "remove", NoRet)

\* remove(record) and remove(payload): resolved by checksum.
RemoveRecord(r) ==
  Commit(remove(Store, indexOf(_data, r), FALSE), "remove", NoRet)

Clear == Commit(clear(Store), "clear", NoRet)

CreateIndex(field) ==
  Commit(createIndex(Store, field, FALSE), "createIndex", NoRet)

\* A caller sets field of r, a record the store listens to, to v.
FieldUpdate(r, field, v) ==
  /\ listeners[r] > 0
  /\ fld[r][field] # Undefined
  /\ fld[r][field] # v
  /\ LET S == onFieldChange([Store EXCEPT !.fld[r][field] = v], r, field,
                            fld[r][field], v, listeners[r])
     IN /\ IndexInBounds(S)
        /\ Commit(S, "field.update", NoRet)

\* A caller removes field of r, a record the store listens to.
FieldDelete(r, field) ==
  /\ listeners[r] > 0
  /\ fld[r][field] # Undefined
  /\ Commit(onFieldChange([Store EXCEPT !.fld[r][field] = Undefined], r,
                          field, fld[r][field], Undefined, listeners[r]),
            "field.delete", NoRet)

Reindex ==
  Commit([Store EXCEPT !.index = reindex(@, indexKeys, _data, fld)],
         "reindex", NoRet)

GetIndices(field, value) ==
  Commit([Store EXCEPT !.index = getIndicesIndex(@, indexKeys, field, value)],
         "getIndices", getIndicesRet(_index, indexKeys, field, value))

AddFilter(fn) ==
  /\ Len(_filters) < Cardinality(FilterIds)
  /\ Commit(addFilter(Store, fn), "addFilter", NoRet)

RemoveFilter(fn) ==
  Commit(removeFilter(Store, fn, FALSE), "removeFilter", NoRet)

RemoveFilterAt(n) ==
  Commit(removeFilterAt(Store, n, FALSE), "removeFilter", NoRet)

ClearFilters == Commit(clearFilters(Store, FALSE), "clearFilters", NoRet)

\* The field maps callers query with: up to one value per field.
FieldMaps ==
  {<<>>} \cup {<<<<f, v>>>> : f \in Fields, v \in Values}
    \cup {<<<<"f", v>>, <<"g", w>>>> : v, w \in Values}

Queries ==
  {Query("number", n, <<>>) : n \in NotFound..MaxFewAdds}
    \cup {Query("function", k, <<>>) : k \in FilterIds}
    \cup {Query("record", r, <<>>) : r \in RecIds}
    \cup {Query("object", 0, pairs) : pairs \in FieldMaps}
    \cup {Query("string", 0, <<>>), Query("undefined", 0, <<>>)}

Find(query) ==
  LET found == find(Store, query, FALSE)
  IN Commit(found.store, "find", found.ret)

Records == Commit(Store, "records", ListOf(records(Store)))

RecordCount ==
  Commit(Store, "recordCount", [kind |-> "number", val |-> <<recordCount(Store)>>])

Data == Commit(Store, "data", ListOf(data(Store)))

\* The field maps callers sort by.
Sorters ==
  {<<<<f, d>>>> : f \in Fields, d \in {"asc", "desc"}}
    \cup {<<<<"f", d>>, <<"g", e>>>> : d, e \in {"asc", "desc"}}

Sort(sorter) == Commit(sort(Store, sorter), "sort", NoRet)

Deduplicate == Commit(deduplicate(Store), "deduplicate", NoRet)

\* The records in the store.
Members == Range(_data)

\* The numbers a caller passes to remove: -1, the positions, and past the end.
Positions == NotFound..MaxAdds

\* The store as constructed by default: allowDuplicates is true.
InitDefault == Init /\ allowDuplicates = TRUE

\* The store under add, remove, clear and bulk load, for every duplicate
\* policy.
Next ==
  \/ \E r \in RecIds : Add(r, MaxAdds)
  \/ \E list \in Lists : Load(list, MaxAdds)
  \/ \E list \in Lists : Reload(list, MaxAdds)
  \/ \E num \in Positions : RemoveAt(num)
  \/ \E r \in RecIds : RemoveRecord(r)
  \/ Clear

Spec == Init /\ [][Next]_vars

\* The index table under add, remove and field changes, then reindex,
\* then a lookup.
NextIndex ==
  \/ \E r \in RecIds : Add(r, MaxFewAdds)
  \/ \E num \in Positions : RemoveAt(num)
  \/ \E r \in RecIds, v \in Values : FieldUpdate(r, "f", v)
  \/ \E r \in RecIds : FieldDelete(r, "f")
  \/ Reindex
  \/ /\ op = "reindex"
     /\ \E field \in Fields, value \in Values : GetIndices(field, value)

SpecIndex == InitDefault /\ [][NextIndex]_vars

\* remove in all its forms, on stores built by add and load.
NextRemove ==
  \/ \E r \in RecIds : Add(r, MaxFewAdds)
  \/ \E list \in Lists : Load(list, MaxFewAdds)
  \/ \E num \in Positions : RemoveAt(num)
  \/ \E r \in RecIds : RemoveRecord(r)
  \/ \E field \in Fields : CreateIndex(field)
  \/ Clear

SpecRemove == InitDefault /\ [][NextRemove]_vars

\* clear, on stores with records, indexes, filters and tracked changes.
NextClear ==
  \/ \E r \in RecIds : Add(r, MaxFewAdds)
  \/ \E r \in RecIds : Load(<<r>>, MaxFewAdds)
  \/ \E num \in Positions : RemoveAt(num)
  \/ \E field \in Fields : CreateIndex(field)
  \/ \E fn \in FilterIds : AddFilter(fn)
  \/ Clear

SpecClear == InitDefault /\ [][NextClear]_vars

\* Bulk loads on stores with tracked changes, for every duplicate policy.
NextLoad ==
  \/ \E r \in RecIds : Add(r, MaxFewAdds)
  \/ \E list \in Lists : Load(list, MaxFewAdds)
  \/ \E list \in Lists : Reload(list, MaxFewAdds)
  \/ \E num \in Positions : RemoveAt(num)

SpecLoad == Init /\ [][NextLoad]_vars

\* Filters registered and removed, by predicate and by position, on stores
\* with records.
NextRemoveFilter ==
  \/ \E r \in RecIds : Add(r, MaxFewAdds)
  \/ \E fn \in FilterIds : AddFilter(fn)
  \/ \E fn \in FilterIds : RemoveFilter(fn)
  \/ \E n \in NotFound..Cardinality(FilterIds) : RemoveFilterAt(n)
  \/ ClearFilters
  \/ Records

SpecRemoveFilter == InitDefault /\ [][NextRemoveFilter]_vars

\* Queries on stores with records, indexes and filters.
NextFind ==
  \/ \E r \in RecIds : Add(r, MaxFewAdds)
  \/ \E num \in Positions : RemoveAt(num)
  \/ \E field \in Fields : CreateIndex(field)
  \/ \E fn \in FilterIds : AddFilter(fn)
  \/ \E query \in Queries : Find(query)

SpecFind == InitDefault /\ [][NextFind]_vars

\* The filtered views, on stores whose records change.
NextFilter ==
  \/ \E r \in RecIds : Add(r, MaxFewAdds)
  \/ \E r \in RecIds, v \in Values : FieldUpdate(r, "f", v)
  \/ \E fn \in FilterIds : AddFilter(fn)
  \/ Records
  \/ RecordCount
  \/ Data

SpecFilter == InitDefault /\ [][NextFilter]_vars

\* sort, on stores with and without filters.
NextSort ==
  \/ \E r \in RecIds : Add(r, MaxFewAdds)
  \/ \E num \in Positions : RemoveAt(num)
  \/ \E field \in Fields : CreateIndex(field)
  \/ \E fn \in FilterIds : AddFilter(fn)
  \/ \E sorter \in Sorters : Sort(sorter)

SpecSort == InitDefault /\ [][NextSort]_vars

\* deduplicate, on stores filled by add and load.
NextDedup ==
  \/ \E r \in RecIds : Add(r, MaxAdds)
  \/ \E list \in Lists : Load(list, MaxAdds)
  \/ Deduplicate

SpecDedup == InitDefault /\ [][NextDedup]_vars

\* A value no record is built with.
OtherValue == 2

\* Field changes and removals on stores of distinct records whose indexed
\* field takes three values.
NextFieldDelete ==
  \/ \E r \in RecIds \ Members : Add(r, MaxAdds)
  \/ \E r \in RecIds : FieldUpdate(r, "f", OtherValue)
  \/ \E r \in RecIds : FieldDelete(r, "f")
  \/ Reindex

SpecFieldDelete == InitDefault /\ [][NextFieldDelete]_vars

\* --------------------------------------------------------------- claims
\* The positions whose record has value v for field f.
PositionsOf(f, v) == {p \in 0..(Len(_data) - 1) : fld[_data[p + 1]][f] = v}

\* The positions a bucket holds (all but its head).
BucketPositions(b) == IF Len(b) = 0 THEN {} ELSE Range(Tail(b))

BucketsHolding(f, p) ==
  {i \in 1..Len(_index[f]) : p \in BucketPositions(_index[f][i])}

\* C1: for every indexed field f, every position whose record has a value
\* for f is in exactly one bucket of f, the bucket filed under that value,
\* and no bucket of f holds anything else.
C1_IndexInvariant ==
  \A f \in indexKeys :
    /\ \A p \in 0..(Len(_data) - 1) :
         fld[_data[p + 1]][f] # Undefined =>
           /\ Cardinality(BucketsHolding(f, p)) = 1
           /\ \A i \in BucketsHolding(f, p) :
                BHead(_index[f][i]) = fld[_data[p + 1]][f]
    /\ \A i \in 1..Len(_index[f]) :
         \A q \in BucketPositions(_index[f][i]) :
           /\ q \in 0..(Len(_data) - 1)
           /\ fld[_data[q + 1]][f] # Undefined

\* C2: a lookup made right after reindex, on any indexed field and value,
\* returns exactly the positions of the records holding that value, each
\* once, whatever adds, removes and field changes came before.
C2_LookupAfterReindex ==
  [][\A field \in Fields, value \in Values :
       (op = "reindex" /\ field \in indexKeys /\ GetIndices(field, value)) =>
         /\ ret'.kind = "list"
         /\ Range(ret'.val) = PositionsOf(field, value)
         /\ Len(ret'.val) = Cardinality(PositionsOf(field, value))]_vars

\* A lookup has returned two positions for records of which one has had
\* its indexed field changed since it was built.
C2_Witness ==
  /\ op = "getIndices"
  /\ Len(ret.val) = 2
  /\ \E r \in Members : fld[r]["f"] # InitialData(r)["f"]

\* C3: the deleted set shares no record with the created set nor with the
\* live records.
C3_DeletedDisjoint ==
  /\ _deleted \cap _created = {}
  /\ _deleted \cap Members = {}

\* The step removes from the store the record that the step before added
\* (outside bulk mode) as its last member.
RemovesJustAdded ==
  /\ op = "add"
  /\ ~_loading
  /\ emitted = <<"record.create">>
  /\ op' = "remove"
  /\ \E p \in 0..(Len(_data) - 1) :
       /\ _data[p + 1] = _data[Len(_data)]
       /\ _data' = Splice1(_data, p)

\* C4: when a record added outside bulk mode is removed next, it is then in
\* neither created nor deleted, and both sets hold otherwise what they
\* held before the add.
C4_NetZeroChurn ==
  [][RemovesJustAdded =>
       LET r == _data[Len(_data)]
       IN /\ r \notin _created'
          /\ r \notin _deleted'
          /\ _created' \ {r} = _created \ {r}
          /\ _deleted' \ {r} = _deleted \ {r}]_vars

\* C5: with allowDuplicates false no two positions hold records with the
\* same identity token.
C5_NoDuplicateIdentity ==
  ~allowDuplicates =>
    \A i, j \in 1..Len(_data) :
      i # j => checksum(_data[i]) # checksum(_data[j])

\* C6: with allowDuplicates false and errorOnDuplicate true, adding a record
\* whose token is that of an existing member raises DuplicateRecordError
\* and leaves records, index table and created as they were.
C6_DuplicateRejected ==
  [][\A r \in RecIds :
       ( /\ ~allowDuplicates
         /\ errorOnDuplicate
         /\ \E i \in 1..Len(_data) : checksum(_data[i]) = checksum(r)
         /\ Add(r, MaxAdds) ) =>
         /\ threw' = "DuplicateRecordError"
         /\ UNCHANGED <<_data, _index, _created>>]_vars

\* C7: adding a record whose token matches an existing, different member
\* emits record.duplicate first; with allowDuplicates true the record is
\* then inserted and record.create follows, with allowDuplicates false it
\* is not inserted and no record.create is emitted.
C7_DuplicateEvent ==
  [][\A r \in RecIds :
       ( /\ \E i \in 1..Len(_data) :
              _data[i] # r /\ checksum(_data[i]) = checksum(r)
         /\ Add(r, MaxAdds) ) =>
         IF allowDuplicates
         THEN /\ emitted' = <<"record.duplicate", "record.create">>
              /\ _data' = Append(_data, r)
         ELSE /\ emitted' = <<"record.duplicate">>
              /\ _data' = _data]_vars

\* The identifier of a remove call resolves to no member.
NoSuchPosition(num) == num \notin 0..(Len(_data) - 1)

\* C8: remove with an identifier that resolves to no member (a position
\* outside 0..length-1, a record matching no member) raises
\* RecordNotFoundError.
C8_RemoveNotFound ==
  [][ /\ \A num \in Positions :
           (NoSuchPosition(num) /\ RemoveAt(num)) =>
             threw' = "RecordNotFoundError"
      /\ \A r \in RecIds :
           (NoSuchPosition(indexOf(_data, r)) /\ RemoveRecord(r)) =>
             threw' = "RecordNotFoundError" ]_vars

\* C9: a remove call whose identifier resolves to no member leaves records,
\* created, deleted and every bucket as they were and emits no
\* record.delete.
C9_FailedRemoveFrame ==
  [][ /\ \A num \in Positions :
           (NoSuchPosition(num) /\ RemoveAt(num)) =>
             /\ UNCHANGED <<_data, _created, _deleted, _index>>
             /\ "record.delete" \notin Range(emitted')
      /\ \A r \in RecIds :
           (NoSuchPosition(indexOf(_data, r)) /\ RemoveRecord(r)) =>
             /\ UNCHANGED <<_data, _created, _deleted, _index>>
             /\ "record.delete" \notin Range(emitted') ]_vars

\* A remove call has failed on a store that has a member, a removed record
\* and a bucket to lose.
C9_Witness ==
  /\ op = "remove"
  /\ threw = "RecordNotFoundError"
  /\ Len(_data) > 0
  /\ _deleted # {}
  /\ \E f \in indexKeys : Len(_index[f]) > 0

\* C10: clear empties records and every indexed field's buckets, leaves
\* the indexed fields, the filters, created and deleted as they were, and
\* emits clear.
C10_ClearFrame ==
  [][op' = "clear" =>
       /\ _data' = <<>>
       /\ \A f \in indexKeys : _index'[f] = <<>>
       /\ UNCHANGED <<indexKeys, _filters, _created, _deleted>>
       /\ emitted' = <<"clear">>]_vars

\* clear has run on a store that held records, a filter, and records in
\* created and in deleted; the created records are still in created.
C10_Witness ==
  /\ op = "clear"
  /\ _created # {}
  /\ _deleted # {}
  /\ _filters # <<>>
  /\ Cardinality(indexKeys) = 2

\* The number of times event is in the sequence of emitted events.
CountOf(events, event) ==
  Cardinality({i \in 1..Len(events) : events[i] = event})

\* C11: a load or reload that completes emits no record.create and exactly
\* one load (reload) event, and the handlers of that event find the store
\* out of bulk mode with created and deleted empty, whatever they held
\* before the call.
C11_BulkEvents ==
  [][(op' \in {"load", "reload"} /\ threw' = "none") =>
       /\ "record.create" \notin Range(emitted')
       /\ CountOf(emitted', op') = 1
       /\ CountOf(emitted', IF op' = "load" THEN "reload" ELSE "load") = 0
       /\ bulkSeen' = [loading |-> FALSE, created |-> {}, deleted |-> {}]
       /\ ~_loading' /\ _created' = {} /\ _deleted' = {}]_vars

\* A load that added a record has completed on a store that held a removed
\* record before it.
C11_Witness ==
  /\ op = "load"
  /\ threw = "none"
  /\ Len(_data) > 0
  /\ \E r \in RecIds : listeners[r] > 0 /\ r \notin Members

\* add(x) called for each x of the list in order, by a caller's loop that
\* an error ends.
RECURSIVE addEach(_, _)
addEach(S, list) ==
  IF Len(list) = 0 \/ S.threw # "none" THEN S
  ELSE addEach(add(S, Head(list), FALSE), Tail(list))

\* C12: in every state and for every list, load(list) leaves the records
\* and the index table that add(x) for each x of the list in order leaves.
C12_LoadIsAddLoop ==
  \A list \in Lists :
    LET loaded == load(Store, list)
        added == addEach(Store, list)
    IN /\ loaded.data = added.data
       /\ loaded.index = added.index

\* A load has put two records and their index entries in the store.
C12_Witness ==
  /\ op = "load"
  /\ threw = "none"
  /\ Len(_data) = 2
  /\ Total(listeners, MaxRec) = 2
  /\ Elements(_index["f"]) >= 3

\* The stored records that have the queried value for every key, in
\* storage order.
Matching(pairs) == SelectSeq(_data, LAMBDA r : MatchesAll(fld[r], pairs))

\* The number of times x is in the sequence s.
Occurrences(s, x) == Cardinality({i \in 1..Len(s) : s[i] = x})

\* C13: find with a field map returns exactly the records that have the
\* queried value for every key, each as often as it is stored; for a query
\* on one indexed field they come in storage order.
C13_FindFieldMap ==
  [][\A pairs \in FieldMaps :
       (Len(pairs) > 0 /\ Find(Query("object", 0, pairs))) =>
         /\ threw' = "none"
         /\ ret'.kind = "list"
         /\ \A r \in RecIds :
              Occurrences(ret'.val, r) = Occurrences(Matching(pairs), r)
         /\ (Len(pairs) = 1 /\ pairs[1][1] \in indexKeys) =>
              ret'.val = Matching(pairs)]_vars

\* C14: with ignoreFilters not set, every record find returns, whatever
\* the query, satisfies every registered filter.
C14_FindAppliesFilters ==
  [][\A query \in Queries :
       Find(query) =>
         \A r \in Range(ret'.val), i \in 1..Len(_filters) :
           filterFn(_filters[i], fld[r])]_vars

\* The query matches no stored record.
MatchesNothing(query) ==
  CASE query.kind = "number" -> query.num \notin 0..(Len(_data) - 1)
    [] query.kind = "string" -> TRUE
    [] query.kind = "function" ->
         \A r \in Members : ~filterFn(query.num, fld[r])
    [] query.kind = "object" -> Matching(query.pairs) = <<>>
    [] OTHER -> FALSE

\* C15: find returns null when a position or an id string matches nothing,
\* the empty store included, and an empty list when a predicate or a field
\* map matches nothing.
C15_FindNoMatch ==
  [][\A query \in Queries :
       (MatchesNothing(query) /\ Find(query)) =>
         /\ threw' = "none"
         /\ query.kind \in {"number", "string"} => ret' = Null
         /\ query.kind \in {"function", "object"} => ret' = ListOf(<<>>)]_vars

\* The stored records every registered filter keeps, in storage order.
KeptByAll ==
  SelectSeq(_data, LAMBDA r : \A i \in 1..Len(_filters) :
                                filterFn(_filters[i], fld[r]))

TiedBefore(a, b, sorter, n) == \A m \in 1..(n - 1) : a[sorter[m][1]] = b[sorter[m][1]]

\* C17: after a field-map sort, of two records that tie on the earlier keys
\* and of which exactly one lacks the next key, the one lacking the key
\* comes after the other, for asc and for desc.
C17_MissingKeyLast ==
  [][\A sorter \in Sorters :
       (Len(_filters) = 0 /\ Sort(sorter)) =>
         \A i, j \in 1..Len(_data'), n \in 1..Len(sorter) :
           LET a == fld[_data'[i]]
               b == fld[_data'[j]]
               key == sorter[n][1]
           IN (/\ i < j
               /\ TiedBefore(a, b, sorter, n)
               /\ (a[key] = Undefined) # (b[key] = Undefined))
                => b[key] = Undefined]_vars

\* Records a and b are in the order of the sorter: at the first key on
\* which they differ, a's value comes first in the key's direction.  A key
\* that only one of them has is left to C17.
RECURSIVE InOrder(_, _, _)
InOrder(a, b, sorter) ==
  IF Len(sorter) = 0 THEN TRUE
  ELSE LET key == Head(sorter)[1]
           dir == Head(sorter)[2]
       IN IF (a[key] = Undefined) # (b[key] = Undefined) THEN TRUE
          ELSE IF a[key] = b[key] THEN InOrder(a, b, Tail(sorter))
          ELSE IF dir = "asc" THEN a[key] < b[key] ELSE a[key] > b[key]

\* C18: after sort(s), with or without filters, find(0), find(1), ... give
\* the stored records in the order of s, the stored records are those of
\* before in some order, and find({f: v}) on an indexed field f returns the
\* records whose f is v.
C18_SortThenFind ==
  [][\A sorter \in Sorters :
       Sort(sorter) =>
         /\ \A r \in RecIds : Occurrences(_data', r) = Occurrences(_data, r)
         /\ \A i, j \in 0..(Len(_data') - 1) :
              LET a == find(Store', Query("number", i, <<>>), FALSE).ret
                  b == find(Store', Query("number", j, <<>>), FALSE).ret
              IN /\ a.kind = "record"
                 /\ i < j => InOrder(fld[a.val[1]], fld[b.val[1]], sorter)
         /\ \A f \in indexKeys, v \in Values :
              find(Store', Query("object", 0, <<<<f, v>>>>), FALSE).ret
                = ListOf(SelectSeq(_data', LAMBDA r : fld[r][f] = v))]_vars

\* The stored records whose serialization is at no earlier position, in
\* storage order.
EarliestOccurrences ==
  SelectSeq(Offsets(Len(_data)),
            LAMBDA i : \A j \in 0..(i - 1) :
                         stringify(fld[_data[j + 1]]) # stringify(fld[_data[i + 1]]))

\* C19: deduplicate removes exactly the records whose serialization is at
\* an earlier position too: what stays is the earliest record of each
\* serialization, in the order they were in.
C19_DeduplicateKeepsEarliest ==
  [][Deduplicate =>
       _data' = [n \in 1..Len(EarliestOccurrences) |->
                   _data[EarliestOccurrences[n] + 1]]]_vars

\* C20: a deduplicate directly after a deduplicate removes nothing and
\* leaves records, created, deleted and the index table as they were.
C20_DeduplicateIdempotent ==
  [][(op = "deduplicate" /\ Deduplicate) =>
       /\ UNCHANGED <<_data, _created, _deleted, _index>>
       /\ emitted' = <<>>]_vars

\* A deduplicate has removed nothing from a store that lost records to an
\* earlier deduplicate and still holds two records and tracked changes.
C20_Witness ==
  /\ op = "deduplicate"
  /\ emitted = <<>>
  /\ Total(listeners, MaxRec) > Len(_data)
  /\ Len(_data) = 2
  /\ _deleted # {}

\* The bucket b without the position p.
WithoutPosition(b, p) ==
  IF Len(b) = 0 THEN b ELSE <<b[1]>> \o SelectSeq(Tail(b), LAMBDA q : q # p)

\* The step removes the record at position p from the store.
RemovesAt(p) ==
  /\ p \in 0..(Len(_data) - 1)
  /\ \/ RemoveAt(p)
     \/ \E r \in RecIds : indexOf(_data, r) = p /\ RemoveRecord(r)

\* C21: a remove of the record at position p takes p out of the bucket of
\* every indexed field that held it and takes nothing else out.
C21_UnapplyOnRemove ==
  [][\A p \in Positions :
       RemovesAt(p) =>
         \A f \in indexKeys :
           /\ Len(_index'[f]) = Len(_index[f])
           /\ \A i \in 1..Len(_index[f]) :
                _index'[f][i] = WithoutPosition(_index[f][i], p)]_vars

\* Position p is in a bucket of field f filed under value v.
InBucketFor(index, f, v, p) ==
  \E i \in 1..Len(index[f]) :
    BHead(index[f][i]) = v /\ p \in BucketPositions(index[f][i])

\* C22: when the indexed field f of the member at position p changes to a
\* present value, p is afterwards in the bucket for the new value and not
\* in the bucket for the old one, also when the new value had no bucket.
C22_UpdateMovesPosition ==
  [][\A r \in Members, v \in Values :
       ("f" \in indexKeys /\ FieldUpdate(r, "f", v)) =>
         LET p == ArrIndexOf(_data, r)
         IN /\ InBucketFor(_index', "f", v, p)
            /\ ~InBucketFor(_index', "f", fld[r]["f"], p)]_vars

\* The positions at which record r is stored.
PositionsOfRecord(r) == {p \in 0..(Len(_data) - 1) : _data[p + 1] = r}

\* C23: when the indexed field f is removed from a member, its position is
\* afterwards in no bucket of f, however many buckets f has and in whatever
\* order, and the positions of the other records stay where they were.
C23_DeleteUnindexes ==
  [][\A r \in Members :
       ("f" \in indexKeys /\ FieldDelete(r, "f")) =>
         /\ Len(_index'["f"]) = Len(_index["f"])
         /\ \A i \in 1..Len(_index["f"]) :
              /\ BucketPositions(_index'["f"][i]) \cap PositionsOfRecord(r) = {}
              /\ BucketPositions(_index'["f"][i]) \ PositionsOfRecord(r)
                   = BucketPositions(_index["f"][i]) \ PositionsOfRecord(r)]_vars

\* updateIndice run n times for the change of field of the record stored
\* first at position p.
RECURSIVE UpdatedTimes(_, _, _, _, _, _)
UpdatedTimes(index, field, oldValue, newValue, p, n) ==
  IF n = 0 THEN index
  ELSE UpdatedTimes(updateIndice(index, indexKeys, field, oldValue, newValue, p),
                    field, oldValue, newValue, p, n - 1)

\* The step is a change of field f of record r: to another value, or the
\* removal of the field.
ChangesField(r, newValue) ==
  IF newValue = Undefined THEN FieldDelete(r, "f") ELSE FieldUpdate(r, "f", newValue)

\* C24: each field change of a member emits record.update, once per
\* subscription, and the handlers of the event find the index already
\* updated for the change at the position the record has at that time.
C24_UpdateAfterIndex ==
  [][\A r \in Members, newValue \in Values \cup {OtherValue, Undefined} :
       ChangesField(r, newValue) =>
         /\ emitted' = [n \in 1..listeners[r] |-> "record.update"]
         /\ updateSeen' = _index'
         /\ _index' = UpdatedTimes(_index, "f", fld[r]["f"], newValue,
                                   ArrIndexOf(_data, r), listeners[r])]_vars

\* A field change of a member has been announced after it changed the
\* index of a store with three records.
C24_Witness ==
  /\ op \in {"field.update", "field.delete"}
  /\ emitted = <<"record.update">>
  /\ Len(_data) = 3
  /\ updateSeen = _index
  /\ \E r \in Members : ~InBucketFor(_index, "f", InitialData(r)["f"],
                                      ArrIndexOf(_data, r))

\* C25: a query only reads the index: no find changes a bucket, so that the
\* same query asked again of the store it left has the same answer.
C25_FindReadsIndex ==
  [][\A query \in Queries :
       Find(query) =>
         /\ _index' = _index
         /\ find(Store', query, FALSE).ret = ret']_vars

\* C26: _loading is false when load or reload returns, also when the call
\* ends with a DuplicateRecordError, so that every record a later add puts
\* into the store is recorded in _created.
C26_LoadingCleared ==
  [][/\ \A list \in Lists :
          (Load(list, MaxFewAdds) \/ Reload(list, MaxFewAdds)) => ~_loading'
     /\ \A r \in RecIds :
          (Add(r, MaxFewAdds) /\ Len(_data') > Len(_data)) => r \in _created']_vars

\* C27: a change of a field of a record that was taken out of the store
\* leaves the index as it is and emits no record.update.
C27_RemovedRecordIgnored ==
  [][\A r \in RecIds \ Members :
       ((\E v \in Values : FieldUpdate(r, "f", v)) \/ FieldDelete(r, "f")) =>
         /\ _index' = _index
         /\ "record.update" \notin Range(emitted')]_vars

\* C28: removeFilter with a predicate that is not registered, or with a
\* position past the end of the pipeline, leaves the pipeline as it is and
\* emits no filter.delete; with a registered predicate it removes that
\* predicate, the others keeping their order.
C28_RemoveFilterExact ==
  [][/\ \A fn \in FilterIds :
          RemoveFilter(fn) =>
            IF fn \in Range(_filters)
            THEN /\ _filters' = Splice1(_filters, ArrIndexOf(_filters, fn))
                 /\ Len(_filters') = Len(_filters) - 1
                 /\ emitted' = <<"filter.delete">>
            ELSE /\ _filters' = _filters
                 /\ emitted' = <<>>
     /\ \A n \in Len(_filters)..Cardinality(FilterIds) :
          RemoveFilterAt(n) => (_filters' = _filters /\ emitted' = <<>>)]_vars

\* C29: createIndex(field) does not change what a query on the field
\* returns, whatever records the store holds, and leaves the buckets of a
\* field that is indexed already as they are.
C29_CreateIndexKeepsResults ==
  [][\A field \in Fields :
       CreateIndex(field) =>
         /\ \A v \in Values :
              find(Store', Query("object", 0, <<<<field, v>>>>), FALSE).ret
                = find(Store, Query("object", 0, <<<<field, v>>>>), FALSE).ret
         /\ (field \in indexKeys => _index'[field] = _index[field])]_vars

====
